---- MODULE Spec2Model ----
(***************************************************************************)
(* Model of src/fs/Vfat.cpp (android::vold::vfat): IsSupported, Check,     *)
(* currentUtcOffsetMinutes, DoMount, Mount and Format, driven by one       *)
(* caller that issues the public operations one after the other.  The      *)
(* external world (the tools' exit statuses, the mount(2) outcomes, the    *)
(* state of the binaries and of LOST.DIR) is chosen nondeterministically.  *)
(***************************************************************************)
EXTENDS Integers, Sequences, FiniteSets, TLC

\* ------------------------------------------------------------------ errno
EIO == 5
EROFS == 30
ENODATA == 61
ETIMEDOUT == 110
\* errno values a failed access(2) leaves behind: ENOENT, EACCES
ENOENT == 2
EACCES == 13

\* ------------------------------------------------------- inputs (bounded)
Sources == {"/dev/block/vold/public:8,1", "/dev/block/vold/public:8,17"}
Targets == {"/mnt/media_rw/1234-ABCD"}
\* exit statuses of the external tools the model draws from (0..255)
ExitCodes == {0, 1, 2, 3, 4, 8, 16, 110}
NumSectors == {0, 1, 2048, 4194304}
BinaryStates == {"exec", "noexec", "missing"}
\* <<ownerUid, ownerGid, permMask>> of the mount policies, and the values of
\* tm_gmtoff (seconds) at the time of a mount
Owners == {<<1000, 1000, 7>>, <<0, 1015, 63>>}
GmtOffsets == {-18000, -59, 19800}

kMkfsPath == "/system/bin/newfs_msdos"
kFsckPath == "/system/bin/fsck_msdos"

\* ---------------------------------------------------- text conversions
DigitChar(d) ==
  CASE d = 0 -> "0" [] d = 1 -> "1" [] d = 2 -> "2" [] d = 3 -> "3"
    [] d = 4 -> "4" [] d = 5 -> "5" [] d = 6 -> "6" [] d = 7 -> "7"
    [] d = 8 -> "8" [] d = 9 -> "9"

RECURSIVE ToBase(_, _)
\* digits of the non-negative n in base b, most significant first, no padding
ToBase(n, b) ==
  IF n < b THEN DigitChar(n) ELSE ToBase(n \div b, b) \o DigitChar(n % b)

\* printf %d
FormatD(n) == IF n < 0 THEN "-" \o ToBase(-n, 10) ELSE ToBase(n, 10)
\* printf %o, for the non-negative values a permission mask takes
FormatO(n) == ToBase(n, 8)
\* printf %lu
FormatLu(n) == ToBase(n, 10)

\* ------------------------------------------------ execution primitives
\* What one run of an external tool can end in: an exit status, the
\* timeout of the bounded primitive, or a failure to launch.
ToolOutcomes ==
  [kind : {"exit"}, code : ExitCodes]
    \cup {[kind |-> "timeout", code |-> 0], [kind |-> "forkfail", code |-> 0]}

\* value ForkExecvpTimeout hands back to Check
ForkExecvpTimeout(o) ==
  CASE o.kind = "exit" -> o.code
    [] o.kind = "timeout" -> ETIMEDOUT
    [] o.kind = "forkfail" -> -1

FormatOutcomes ==
  [kind : {"exit"}, code : ExitCodes] \cup {[kind |-> "forkfail", code |-> 0]}

\* value ForkExecvp hands back to Format
ForkExecvp(o) == IF o.kind = "exit" THEN o.code ELSE -1

\* access(path, X_OK) on a binary in state b: [rc, errno]
AccessX(b, e) ==
  CASE b = "exec" -> [rc |-> 0, errno |-> e]
    [] b = "noexec" -> [rc |-> -1, errno |-> EACCES]
    [] b = "missing" -> [rc |-> -1, errno |-> ENOENT]

VARIABLES
  pc,          \* position of the caller: "idle" or inside an operation
  op,          \* the operation called last ("none" before the first call)
  result,      \* status_t returned by the last Check / Mount / Format
  supported,   \* bool returned by the last IsSupported
  probe,       \* what IsSupported found: the two binaries and the host
  errno,       \* last-error indicator of the calling process
  errnoSet,    \* the current call has assigned errno
  source,      \* argument of Check / Format
  numSectors,  \* argument of Format
  pass,        \* Check: local pass counter
  rc,          \* Check / Format: local rc
  cmd,         \* Check / Format: the command handed to the primitive
  launches,    \* launches of the external tool made by the current call
  outcomes,    \* values the primitive returned to the current call, in order
  execOpts,    \* Check / Format: timeout and context handed to the primitive
  lastKind,    \* how the last run of the tool ended: exit, timeout, forkfail
  exhaustedBefore, \* the call before this Check was a Check that ran out of rechecks
  running,     \* calls of the execution primitive not yet returned
  margs,       \* Mount: struct mount_args
  childPc,     \* Mount: position of the forked child running DoMount
  flags,       \* DoMount: local flags
  mountData,   \* DoMount: local mountData
  crc,         \* DoMount: local rc
  cerrno,      \* errno of the forked child
  syscalls,    \* mount / access / mkdir calls the child made, in order
  gmtoff,      \* tm_gmtoff the child read in currentUtcOffsetMinutes
  offsetArg,   \* DoMount: local timeOffsetArg
  lostAtCall,  \* lostExists when the current Mount was called
  lostExists   \* LOST.DIR exists in the root of the volume

vars == <<pc, op, result, supported, probe, errno, errnoSet, source,
          numSectors, pass, rc, cmd, launches, outcomes, execOpts, lastKind,
          exhaustedBefore, running,
          margs, childPc, flags, mountData, crc, cerrno, syscalls, gmtoff,
          offsetArg, lostAtCall, lostExists>>

errVars == <<errno, errnoSet>>
probeVars == <<supported, probe>>
toolVars == <<source, numSectors, pass, rc, cmd, launches, outcomes, execOpts,
              lastKind, exhaustedBefore>>
childVars == <<margs, childPc, flags, mountData, crc, cerrno, syscalls, gmtoff,
               offsetArg, lostAtCall>>
worldVars == <<lostExists>>

\* no timeout and no security context
NoOpts == [timeout |-> "none", context |-> "none"]

NoArgs ==
  [source |-> "", target |-> "", ro |-> FALSE, remount |-> FALSE,
   executable |-> FALSE, ownerUid |-> 0, ownerGid |-> 0, permMask |-> 0,
   createLost |-> FALSE]

\* the locals of an operation that is not running
ProbeIdle == supported = FALSE /\ probe = [mkfs |-> "exec", fsck |-> "exec", vfat |-> TRUE]
ToolIdle ==
  /\ source = "" /\ numSectors = 0 /\ pass = 1 /\ rc = 0
  /\ cmd = <<>> /\ launches = 0 /\ outcomes = <<>>
  /\ execOpts = NoOpts /\ lastKind = "none" /\ exhaustedBefore = FALSE
ChildIdle ==
  /\ margs = NoArgs /\ childPc = "none" /\ flags = {} /\ mountData = ""
  /\ crc = 0 /\ cerrno = 0 /\ syscalls = <<>> /\ gmtoff = 0
  /\ offsetArg = 0
  /\ lostAtCall = FALSE

\* a call starts: the locals of the other operations are gone
ProbeReset ==
  supported' = FALSE /\ probe' = [mkfs |-> "exec", fsck |-> "exec", vfat |-> TRUE]
ToolReset ==
  /\ source' = "" /\ numSectors' = 0 /\ pass' = 1 /\ rc' = 0
  /\ cmd' = <<>> /\ launches' = 0 /\ outcomes' = <<>>
  /\ execOpts' = NoOpts /\ lastKind' = "none" /\ exhaustedBefore' = FALSE
ChildReset ==
  /\ margs' = NoArgs /\ childPc' = "none" /\ flags' = {} /\ mountData' = ""
  /\ crc' = 0 /\ cerrno' = 0 /\ syscalls' = <<>> /\ gmtoff' = 0
  /\ offsetArg' = 0
  /\ lostAtCall' = FALSE

Init ==
  /\ pc = "idle"
  /\ op = "none"
  /\ result = 0
  /\ errno = 0
  /\ errnoSet = FALSE
  /\ running = 0
  /\ ProbeIdle
  /\ ToolIdle
  /\ ChildIdle
  /\ lostExists \in BOOLEAN

\* ------------------------------------------------------------ IsSupported
\* access(kMkfsPath, X_OK) == 0 && access(kFsckPath, X_OK) == 0 &&
\* IsFilesystemSupported("vfat"), evaluated left to right with short circuit:
\* [ret, errno] for binaries in states mk and fs, host support vf, errno e.
\* the probe of the check tool left out
IsSupportedEval_SkipsFsck(mk, fs, vf, e) ==
  LET a1 == AccessX(mk, e)
  IN  IF a1.rc # 0 THEN [ret |-> FALSE, errno |-> a1.errno]
      ELSE [ret |-> vf, errno |-> a1.errno]

IsSupportedEval(mk, fs, vf, e) ==
  LET a1 == AccessX(mk, e)
      a2 == AccessX(fs, a1.errno)
  IN  IF a1.rc # 0 THEN [ret |-> FALSE, errno |-> a1.errno]
      ELSE IF a2.rc # 0 THEN [ret |-> FALSE, errno |-> a2.errno]
      ELSE [ret |-> vf, errno |-> a2.errno]

IsSupported ==
  /\ pc = "idle"
  /\ \E mk \in BinaryStates, fs \in BinaryStates, vf \in BOOLEAN :
       LET r == IsSupportedEval(mk, fs, vf, errno)
       IN  /\ op' = "IsSupported"
           /\ probe' = [mkfs |-> mk, fsck |-> fs, vfat |-> vf]
           /\ supported' = r.ret
           /\ errno' = r.errno
           /\ errnoSet' = FALSE
  /\ ToolReset /\ ChildReset
  /\ UNCHANGED <<pc, result, running, worldVars>>

\* ------------------------------------------------------------------ Check
\* the push of "-f" left out
FsckCmd_NoForce(s) == <<kFsckPath, "-p", "-y", s>>

FsckCmd(s) == <<kFsckPath, "-p", "-f", "-y", s>>

\* the timeout and the context Check hands to ForkExecvpTimeout
FsckOpts == [timeout |-> "kUntrustedFsckSleepTime", context |-> "sFsckUntrustedContext"]

\* a bound on the launches of one call that the loop of Check never reaches
MaxLaunches == 6

RecheckAllowed_OneMore(p) == p <= 4

\* the recheck budget never tested
RecheckAllowed_Always(p) == TRUE

\* pass++ <= 3, on the value of pass before the increment
RecheckAllowed(p) == p <= 3

\* switch (rc), with pass counter p and errno e: whether Check returns or
\* loops, its return value, errno, whether errno was assigned, and the pass
\* counter afterwards.
SwitchRc(r, p, e) ==
       CASE r = 0 ->
              [next |-> "return", ret |-> 0, errno |-> e, set |-> FALSE, pass |-> p]
         [] r = 1 ->
              [next |-> "return", ret |-> -1, errno |-> e, set |-> FALSE, pass |-> p]
         [] r = 2 ->
              [next |-> "return", ret |-> -1, errno |-> ENODATA, set |-> TRUE, pass |-> p]
         [] r = 4 ->
              IF RecheckAllowed(p)
              THEN [next |-> "continue", ret |-> 0, errno |-> e, set |-> FALSE,
                    pass |-> p + 1]
              ELSE [next |-> "return", ret |-> -1, errno |-> EIO, set |-> TRUE,
                    pass |-> p + 1]
         [] r = 8 ->
              [next |-> "return", ret |-> -1, errno |-> ENODATA, set |-> TRUE, pass |-> p]
         [] r = ETIMEDOUT ->
              [next |-> "return", ret |-> -1, errno |-> ETIMEDOUT, set |-> TRUE,
               pass |-> p]
         [] OTHER ->
              [next |-> "return", ret |-> -1, errno |-> EIO, set |-> TRUE, pass |-> p]

\* case 0 without its return: control falls into case 1
CheckSwitch_ZeroFallsThrough(r, p, e) ==
  IF r < 0
  THEN [next |-> "return", ret |-> -1, errno |-> EIO, set |-> TRUE, pass |-> p]
  ELSE SwitchRc(IF r = 0 THEN 1 ELSE r, p, e)

\* the fork error path without its errno = EIO
CheckSwitch_ForkErrorKeepsErrno(r, p, e) ==
  IF r < 0
  THEN [next |-> "return", ret |-> -1, errno |-> e, set |-> FALSE, pass |-> p]
  ELSE SwitchRc(r, p, e)

\* The body of the loop after the primitive returned r: the fork error
\* check, then the switch.
CheckSwitch(r, p, e) ==
  IF r < 0
  THEN [next |-> "return", ret |-> -1, errno |-> EIO, set |-> TRUE, pass |-> p]
  ELSE SwitchRc(r, p, e)

\* pass kept from the call before (a static counter)
CheckCall_StaticPass ==
  /\ pc = "idle"
  /\ \E s \in Sources : source' = s
  /\ op' = "Check"
  /\ pc' = "check_loop"
  /\ pass' = pass
  /\ rc' = 0
  /\ cmd' = <<>>
  /\ launches' = 0
  /\ outcomes' = <<>>
  /\ numSectors' = 0
  /\ execOpts' = NoOpts
  /\ lastKind' = "none"
  /\ exhaustedBefore' = (op = "Check" /\ Len(outcomes) = 4 /\ outcomes[4] = 4)
  /\ errnoSet' = FALSE
  /\ ProbeReset /\ ChildReset
  /\ UNCHANGED <<result, errno, running, worldVars>>

\* entry of Check: int pass = 1; int rc = 0;
CheckCall ==
  /\ pc = "idle"
  /\ \E s \in Sources : source' = s
  /\ op' = "Check"
  /\ pc' = "check_loop"
  /\ pass' = 1
  /\ rc' = 0
  /\ cmd' = <<>>
  /\ launches' = 0
  /\ outcomes' = <<>>
  /\ numSectors' = 0
  /\ execOpts' = NoOpts
  /\ lastKind' = "none"
  /\ exhaustedBefore' = (op = "Check" /\ Len(outcomes) = 4 /\ outcomes[4] = 4)
  /\ errnoSet' = FALSE
  /\ ProbeReset /\ ChildReset
  /\ UNCHANGED <<result, errno, running, worldVars>>

\* top of the do-loop: the command is built and handed to ForkExecvpTimeout
CheckLaunch ==
  /\ pc = "check_loop"
  /\ launches < MaxLaunches
  /\ cmd' = FsckCmd(source)
  /\ execOpts' = FsckOpts
  /\ launches' = launches + 1
  /\ running' = running + 1
  /\ pc' = "check_wait"
  /\ UNCHANGED <<op, result, probeVars, errVars, source, numSectors, pass, rc,
                 outcomes, lastKind, exhaustedBefore, childVars, worldVars>>

\* ForkExecvpTimeout returns; the rest of the loop body runs
CheckAttemptDone ==
  /\ pc = "check_wait"
  /\ \E o \in ToolOutcomes :
       LET r == ForkExecvpTimeout(o)
           sw == CheckSwitch(r, pass, errno)
       IN  /\ rc' = r
           /\ lastKind' = o.kind
           /\ outcomes' = Append(outcomes, r)
           /\ pass' = sw.pass
           /\ errno' = sw.errno
           /\ errnoSet' = (errnoSet \/ sw.set)
           /\ IF sw.next = "return"
              THEN pc' = "idle" /\ result' = sw.ret
              ELSE pc' = "check_loop" /\ result' = result
  /\ running' = running - 1
  /\ UNCHANGED <<op, probeVars, source, numSectors, cmd, launches, execOpts,
                 exhaustedBefore, childVars, worldVars>>

\* ----------------------------------------------------------------- Format
\* the size override pushed after the source
MkfsCmd_SizeAfterSource(s, n) ==
  <<kMkfsPath, "-O", "android", "-A", s>>
    \o (IF n # 0 THEN <<"-s", FormatLu(n)>> ELSE <<>>)

MkfsCmd(s, n) ==
  <<kMkfsPath, "-O", "android", "-A">>
    \o (IF n # 0 THEN <<"-s", FormatLu(n)>> ELSE <<>>)
    \o <<s>>

\* only the launch failure tested: a non-zero exit status passes as success
FormatResult_StatusIgnored(r, e) ==
  IF r < 0 THEN [ret |-> -1, errno |-> EIO, set |-> TRUE]
  ELSE [ret |-> 0, errno |-> e, set |-> FALSE]

\* after ForkExecvp returned r, with errno e: the return value, errno and
\* whether errno was assigned
FormatResult(r, e) ==
  IF r < 0 THEN [ret |-> -1, errno |-> EIO, set |-> TRUE]
  ELSE IF r = 0 THEN [ret |-> 0, errno |-> e, set |-> FALSE]
  ELSE [ret |-> -1, errno |-> EIO, set |-> TRUE]

\* entry of Format: the command is built and handed to ForkExecvp
FormatCall ==
  /\ pc = "idle"
  /\ \E s \in Sources, n \in NumSectors :
       /\ source' = s
       /\ numSectors' = n
       /\ cmd' = MkfsCmd(s, n)
  /\ op' = "Format"
  /\ pc' = "format_wait"
  /\ launches' = 1
  /\ outcomes' = <<>>
  /\ execOpts' = NoOpts
  /\ lastKind' = "none"
  /\ exhaustedBefore' = FALSE
  /\ running' = running + 1
  /\ errnoSet' = FALSE
  /\ pass' = 1 /\ rc' = 0
  /\ ProbeReset /\ ChildReset
  /\ UNCHANGED <<result, errno, worldVars>>

\* ForkExecvp returns; Format maps the status and returns
FormatDone ==
  /\ pc = "format_wait"
  /\ \E o \in FormatOutcomes :
       LET r == ForkExecvp(o)
           f == FormatResult(r, errno)
       IN  /\ rc' = r
           /\ lastKind' = o.kind
           /\ outcomes' = Append(outcomes, r)
           /\ result' = f.ret
           /\ errno' = f.errno
           /\ errnoSet' = f.set
  /\ running' = running - 1
  /\ pc' = "idle"
  /\ UNCHANGED <<op, probeVars, source, numSectors, pass, cmd, launches,
                 execOpts, exhaustedBefore, childVars, worldVars>>

\* ---------------------------------------------------- currentUtcOffsetMinutes
\* the quotient rounded toward minus infinity
TruncDiv_Floor(a, b) == a \div b

\* C integer division: the quotient truncated toward zero
TruncDiv(a, b) == IF a >= 0 THEN a \div b ELSE -((-a) \div b)

\* conversion to int16_t (two's complement wrap-around)
Int16(x) == ((x + 32768) % 65536) - 32768

\* utcOffsetSeconds is nowTm.tm_gmtoff; the int32_t it is stored in holds
\* every value the model draws
currentUtcOffsetMinutes(utcOffsetSeconds) == Int16(TruncDiv(utcOffsetSeconds, 60))

\* the offsets of local time from UTC, in seconds, that the function is
\* applied to: -MaxOffsetSeconds..MaxOffsetSeconds (14 hours either way)
MaxOffsetSeconds == 50400

\* the function on its own: tm_gmtoff has been read, nothing else runs
OffsetInit ==
  /\ pc = "idle"
  /\ op = "currentUtcOffsetMinutes"
  /\ result = 0
  /\ errno = 0
  /\ errnoSet = FALSE
  /\ running = 0
  /\ ProbeIdle
  /\ ToolIdle
  /\ margs = NoArgs /\ childPc = "offset_entry" /\ flags = {} /\ mountData = ""
  /\ crc = 0 /\ cerrno = 0 /\ syscalls = <<>>
  /\ gmtoff \in -MaxOffsetSeconds..MaxOffsetSeconds
  /\ offsetArg = 0
  /\ lostAtCall = FALSE
  /\ lostExists = FALSE

\* return (int16_t)(utcOffsetSeconds / 60);
OffsetReturn ==
  /\ op = "currentUtcOffsetMinutes"
  /\ childPc = "offset_entry"
  /\ offsetArg' = currentUtcOffsetMinutes(gmtoff)
  /\ childPc' = "offset_done"
  /\ UNCHANGED <<pc, op, result, probeVars, errVars, toolVars, running, margs, flags,
                 mountData, crc, cerrno, syscalls, gmtoff, lostAtCall, worldVars>>

OffsetNext == OffsetReturn

OffsetSpec == OffsetInit /\ [][OffsetNext]_vars

\* ---------------------------------------------------------------- DoMount
MountPolicies ==
  {[source |-> s, target |-> t, ro |-> r, remount |-> rm, executable |-> x,
    ownerUid |-> o[1], ownerGid |-> o[2], permMask |-> o[3], createLost |-> cl] :
     s \in Sources, t \in Targets, r \in BOOLEAN, rm \in BOOLEAN,
     x \in BOOLEAN, o \in Owners, cl \in BOOLEAN}

\* what one mount(2) call can end in; errno is meaningful when rc # 0
MountOutcomes ==
  {[rc |-> 0, errno |-> 0], [rc |-> -1, errno |-> EROFS], [rc |-> -1, errno |-> EIO]}

\* the test of executable inverted
MountFlags_ExecInverted(ro, remount, executable) ==
  {"MS_NODEV", "MS_NOSUID", "MS_DIRSYNC", "MS_NOATIME"}
    \cup (IF executable THEN {"MS_NOEXEC"} ELSE {})
    \cup (IF ro THEN {"MS_RDONLY"} ELSE {})
    \cup (IF remount THEN {"MS_REMOUNT"} ELSE {})

MountFlags(ro, remount, executable) ==
  {"MS_NODEV", "MS_NOSUID", "MS_DIRSYNC", "MS_NOATIME"}
    \cup (IF executable THEN {} ELSE {"MS_NOEXEC"})
    \cup (IF ro THEN {"MS_RDONLY"} ELSE {})
    \cup (IF remount THEN {"MS_REMOUNT"} ELSE {})

\* the masks printed with %d
MountData_DecimalMask(ownerUid, ownerGid, permMask, timeOffsetArg) ==
  "utf8,uid=" \o FormatD(ownerUid) \o ",gid=" \o FormatD(ownerGid)
    \o ",fmask=" \o FormatD(permMask) \o ",dmask=" \o FormatD(permMask)
    \o ",shortname=mixed"
    \o ",time_offset=" \o FormatD(timeOffsetArg)

MountData(ownerUid, ownerGid, permMask, timeOffsetArg) ==
  "utf8,uid=" \o FormatD(ownerUid) \o ",gid=" \o FormatD(ownerGid)
    \o ",fmask=" \o FormatO(permMask) \o ",dmask=" \o FormatO(permMask)
    \o ",shortname=mixed"
    \o ",time_offset=" \o FormatD(timeOffsetArg)

\* the test of errno left out: any failure is retried
NeedsRoRetry_AnyFailure(r, e) == r # 0

\* rc && errno == EROFS
NeedsRoRetry(r, e) == r # 0 /\ e = EROFS

\* flags = MS_RDONLY
RetryFlags_Assign(f) == {"MS_RDONLY"}

\* flags |= MS_RDONLY
RetryFlags(f) == f \cup {"MS_RDONLY"}

LostPath(target) == target \o "/LOST.DIR"

\* the test of rc left out
WantsLostDir_IgnoresRc(r, createLost) == createLost

\* rc == 0 && createLost
WantsLostDir(r, createLost) == r = 0 /\ createLost

\* a failed mkdir makes DoMount fail
RcAfterLostDir_MkdirDecides(r, mk) == IF mk # 0 THEN -1 ELSE r

\* the value DoMount returns after a mkdir that returned mk: the mkdir is
\* only logged (PLOG) and rc is returned as it was
RcAfterLostDir(r, mk) == r

MountCallRec(a, f, d, o) ==
  [call |-> "mount", source |-> a.source, target |-> a.target, fstype |-> "vfat",
   flags |-> f, data |-> d, rc |-> o.rc, errno |-> o.errno]

\* the child enters DoMount: flags and mountData are computed and the first
\* mount(2) is made
DoMountFirst ==
  /\ pc = "mount_wait"
  /\ childPc = "mount"
  /\ \E g \in GmtOffsets, o \in MountOutcomes :
       LET f == MountFlags(margs.ro, margs.remount, margs.executable)
           d == MountData(margs.ownerUid, margs.ownerGid, margs.permMask,
                          currentUtcOffsetMinutes(g))
       IN  /\ gmtoff' = g
           /\ offsetArg' = currentUtcOffsetMinutes(g)
           /\ flags' = f
           /\ mountData' = d
           /\ crc' = o.rc
           /\ cerrno' = (IF o.rc = 0 THEN cerrno ELSE o.errno)
           /\ syscalls' = Append(syscalls, MountCallRec(margs, f, d, o))
           /\ childPc' = (IF NeedsRoRetry(o.rc, o.errno) THEN "retry" ELSE "lost")
  /\ UNCHANGED <<pc, op, result, probeVars, errVars, toolVars, running, margs,
                 lostAtCall, lostExists>>

\* the retry of mount(2) with MS_RDONLY added
DoMountRetry ==
  /\ pc = "mount_wait"
  /\ childPc = "retry"
  /\ \E o \in MountOutcomes :
       LET f == RetryFlags(flags)
       IN  /\ flags' = f
           /\ crc' = o.rc
           /\ cerrno' = (IF o.rc = 0 THEN cerrno ELSE o.errno)
           /\ syscalls' = Append(syscalls, MountCallRec(margs, f, mountData, o))
  /\ childPc' = "lost"
  /\ UNCHANGED <<pc, op, result, probeVars, errVars, toolVars, running, margs,
                 mountData, gmtoff, offsetArg, lostAtCall, lostExists>>

\* the LOST.DIR step, then return rc: the child exits
DoMountLostDir ==
  /\ pc = "mount_wait"
  /\ childPc = "lost"
  /\ IF WantsLostDir(crc, margs.createLost)
     THEN LET path == LostPath(margs.target)
              acc == [call |-> "access", path |-> path,
                      rc |-> IF lostExists THEN 0 ELSE -1]
          IN  IF acc.rc # 0
              THEN \E ok \in BOOLEAN :
                     \* a volume mounted read-only refuses the mkdir
                     /\ ok => "MS_RDONLY" \notin flags
                     /\ syscalls' =
                          syscalls \o
                            <<acc, [call |-> "mkdir", path |-> path, mode |-> 493,
                                    rc |-> IF ok THEN 0 ELSE -1]>>
                     /\ lostExists' = ok
                     /\ crc' = RcAfterLostDir(crc, IF ok THEN 0 ELSE -1)
              ELSE /\ syscalls' = Append(syscalls, acc)
                   /\ lostExists' = lostExists
                   /\ crc' = crc
     ELSE UNCHANGED <<syscalls, lostExists, crc>>
  /\ childPc' = "exited"
  /\ UNCHANGED <<pc, op, result, probeVars, errVars, toolVars, running, margs,
                 flags, mountData, cerrno, gmtoff, offsetArg, lostAtCall>>

\* ------------------------------------------------------------------ Mount
\* what ForkTimeout returns for a child that exited with DoMount's rc
ForkTimeoutResult(r) == IF r = 0 THEN 0 ELSE -1

\* Mount calling DoMountWrapper itself instead of handing it to ForkTimeout
MountCall_RunsDoMountItself ==
  /\ pc = "idle"
  /\ \E a \in MountPolicies : margs' = a
  /\ op' = "Mount"
  /\ pc' = "mount_wait"
  /\ childPc' = "mount"
  /\ flags' = {} /\ mountData' = "" /\ crc' = 0 /\ cerrno' = 0
  /\ syscalls' = <<>>
  /\ gmtoff' = 0
  /\ offsetArg' = 0
  /\ lostAtCall' = lostExists
  /\ errnoSet' = FALSE
  /\ ProbeReset /\ ToolReset
  /\ UNCHANGED <<result, errno, running, worldVars>>

\* entry of Mount: the arguments are packed and handed to ForkTimeout
MountCall ==
  /\ pc = "idle"
  /\ \E a \in MountPolicies : margs' = a
  /\ op' = "Mount"
  /\ pc' = "mount_fork"
  /\ childPc' = "none"
  /\ flags' = {} /\ mountData' = "" /\ crc' = 0 /\ cerrno' = 0
  /\ syscalls' = <<>>
  /\ gmtoff' = 0
  /\ offsetArg' = 0
  /\ lostAtCall' = lostExists
  /\ errnoSet' = FALSE
  /\ ProbeReset /\ ToolReset
  /\ UNCHANGED <<result, errno, running, worldVars>>

\* ForkTimeout forks the child that runs DoMountWrapper
MountFork ==
  /\ pc = "mount_fork"
  /\ pc' = "mount_wait"
  /\ childPc' = "mount"
  /\ running' = running + 1
  /\ UNCHANGED <<op, result, probeVars, errVars, toolVars, margs, flags,
                 mountData, crc, cerrno, syscalls, gmtoff, offsetArg,
                 lostAtCall, worldVars>>

\* ForkTimeout could not fork
MountForkFails ==
  /\ pc = "mount_fork"
  /\ pc' = "idle"
  /\ result' = -1
  /\ UNCHANGED <<op, probeVars, errVars, toolVars, running, childVars, worldVars>>

\* the child exited in time: ForkTimeout returns its status
MountDone ==
  /\ pc = "mount_wait"
  /\ childPc = "exited"
  /\ result' = ForkTimeoutResult(crc)
  /\ pc' = "idle"
  /\ childPc' = "reaped"
  /\ running' = running - 1
  /\ UNCHANGED <<op, probeVars, errVars, toolVars, margs, flags, mountData, crc,
                 cerrno, syscalls, gmtoff, offsetArg, lostAtCall, worldVars>>

\* the child did not exit in time: it is killed and ForkTimeout reports it
MountTimeout ==
  /\ pc = "mount_wait"
  /\ childPc \in {"mount", "retry", "lost"}
  /\ result' = ETIMEDOUT
  /\ pc' = "idle"
  /\ childPc' = "killed"
  /\ running' = running - 1
  /\ UNCHANGED <<op, probeVars, errVars, toolVars, margs, flags, mountData, crc,
                 cerrno, syscalls, gmtoff, offsetArg, lostAtCall, worldVars>>

Next ==
  \/ IsSupported
  \/ CheckCall
  \/ CheckLaunch
  \/ CheckAttemptDone
  \/ FormatCall
  \/ FormatDone
  \/ MountCall
  \/ MountFork
  \/ MountForkFails
  \/ DoMountFirst
  \/ DoMountRetry
  \/ DoMountLostDir
  \/ MountDone
  \/ MountTimeout

Spec == Init /\ [][Next]_vars

\* Check keeps running once called, and every launch of the check tool
\* returns to it: with an exit status, the timeout or a launch failure.
FairSpec == Spec /\ WF_vars(CheckLaunch) /\ WF_vars(CheckAttemptDone)

\* ======================================================================
\* Properties
\* ======================================================================
CheckReturned == op = "Check" /\ pc = "idle"
LastOutcome == outcomes[Len(outcomes)]

\* C1 (as stated): every outcome of the last attempt of Check is mapped as in
\* the exit-status table: 0 gives success; 1 gives failure with EIO; 2 and 8
\* give failure with ENODATA; the timeout sentinel gives failure with
\* ETIMEDOUT; any other non-negative value except 4 gives failure with EIO.
C1_CheckMapsOutcomeTable ==
  (CheckReturned /\ LastOutcome >= 0 /\ LastOutcome # 4) =>
     CASE LastOutcome = 0 -> result = 0
       [] LastOutcome = 1 -> result = -1 /\ errno = EIO
       [] LastOutcome \in {2, 8} -> result = -1 /\ errno = ENODATA
       [] LastOutcome = ETIMEDOUT -> result = -1 /\ errno = ETIMEDOUT
       [] OTHER -> result = -1 /\ errno = EIO

\* C2: one call of Check launches the tool at most 4 times; when every
\* attempt returns 4, Check returns only after exactly 4 launches, with
\* failure and EIO.
AllDirty == \A i \in 1..Len(outcomes) : outcomes[i] = 4

C2_AtMostFourAttempts ==
  op = "Check" =>
    /\ launches <= 4
    /\ Len(outcomes) <= launches
    /\ (AllDirty /\ Len(outcomes) < 4) => pc # "idle"
    /\ (AllDirty /\ Len(outcomes) = 4) =>
          pc = "idle" /\ launches = 4 /\ result = -1 /\ errno = EIO /\ errnoSet

C2_Witness ==
  CheckReturned /\ Len(outcomes) = 4 /\ AllDirty /\ launches = 4 /\ result = -1

\* C3: an attempt that returns 0 ends the call with success and is the last
\* attempt of the call, whether it is the first attempt or follows one, two
\* or three attempts that returned 4.
C3_SuccessEndsCheck ==
  op = "Check" =>
    \A i \in 1..Len(outcomes) :
       outcomes[i] = 0 =>
         /\ i = Len(outcomes)
         /\ launches = i
         /\ pc = "idle"
         /\ result = 0
         /\ \A j \in 1..(i - 1) : outcomes[j] = 4

C3_Witness ==
  CheckReturned /\ outcomes = <<4, 4, 4, 0>> /\ launches = 4 /\ result = 0

\* ---------------------------------------------------------------- Mount
IsMountCall(c) == c.call = "mount"
MountCalls == SelectSeq(syscalls, IsMountCall)
MkdirIdx == {i \in 1..Len(syscalls) : syscalls[i].call = "mkdir"}
\* the child has left the mount attempts behind it
AttemptsOver == childPc \in {"lost", "exited", "reaped"}
FirstFailedRofs ==
  Len(MountCalls) >= 1 /\ MountCalls[1].rc # 0 /\ MountCalls[1].errno = EROFS

\* C4: with read-only=false and a first attempt that failed with EROFS,
\* exactly one more attempt is made, with the same source, target and option
\* string and the first attempt's flags plus MS_RDONLY; the operation
\* succeeds if the retry succeeds and fails, without a third attempt, if it
\* fails.
C4_ReadOnlyRetryOnce ==
  op = "Mount" =>
    /\ Len(MountCalls) <= 2
    /\ (~margs.ro /\ FirstFailedRofs /\ AttemptsOver) =>
          /\ Len(MountCalls) = 2
          /\ MountCalls[2].source = MountCalls[1].source
          /\ MountCalls[2].source = margs.source
          /\ MountCalls[2].target = MountCalls[1].target
          /\ MountCalls[2].target = margs.target
          /\ MountCalls[2].data = MountCalls[1].data
          /\ "MS_RDONLY" \notin MountCalls[1].flags
          /\ MountCalls[2].flags = MountCalls[1].flags \cup {"MS_RDONLY"}
          /\ crc = MountCalls[2].rc
          /\ childPc = "reaped" => (result = 0 <=> MountCalls[2].rc = 0)

C4_Witness ==
  /\ op = "Mount" /\ pc = "idle" /\ childPc = "reaped" /\ ~margs.ro
  /\ FirstFailedRofs /\ Len(MountCalls) = 2 /\ MountCalls[2].rc = 0
  /\ result = 0

\* texts of the numbers the policies and offsets of the model use
DecText == (0 :> "0") @@ (1000 :> "1000") @@ (1015 :> "1015")
OctText == (7 :> "7") @@ (63 :> "77")
MinutesText == (-18000 :> "-300") @@ (-59 :> "0") @@ (19800 :> "330")

ExamplePolicy ==
  margs.ownerUid = 1000 /\ margs.ownerGid = 1000 /\ margs.permMask = 7
    /\ gmtoff = -18000

\* C5 (as stated): for uid=1000, gid=1000, mask 0007 and an offset of -300
\* minutes the option string is
\* utf8,uid=1000,gid=1000,fmask=07,dmask=07,shortname=mixed,time_offset=-300.
C5_OptionStringAsStated ==
  (op = "Mount" /\ ExamplePolicy) =>
    \A i \in 1..Len(MountCalls) :
       MountCalls[i].data =
         "utf8,uid=1000,gid=1000,fmask=07,dmask=07,shortname=mixed,time_offset=-300"

\* C5 (amended): the option string of every mount attempt is
\* utf8,uid=<uid>,gid=<gid>,fmask=<mask>,dmask=<mask>,shortname=mixed,
\* time_offset=<minutes>, uid, gid and minutes in decimal and the mask in
\* octal without a leading zero; for uid=1000, gid=1000, mask 0007 and -300
\* minutes it is
\* utf8,uid=1000,gid=1000,fmask=7,dmask=7,shortname=mixed,time_offset=-300.
C5_OptionString ==
  op = "Mount" =>
    \A i \in 1..Len(MountCalls) :
       /\ MountCalls[i].data =
            "utf8,uid=" \o DecText[margs.ownerUid]
              \o ",gid=" \o DecText[margs.ownerGid]
              \o ",fmask=" \o OctText[margs.permMask]
              \o ",dmask=" \o OctText[margs.permMask]
              \o ",shortname=mixed,time_offset=" \o MinutesText[gmtoff]
       /\ ExamplePolicy =>
            MountCalls[i].data =
              "utf8,uid=1000,gid=1000,fmask=7,dmask=7,shortname=mixed,time_offset=-300"

C5_Witness ==
  /\ op = "Mount" /\ ExamplePolicy /\ Len(MountCalls) = 2
  /\ MountCalls[2].data =
       "utf8,uid=1000,gid=1000,fmask=7,dmask=7,shortname=mixed,time_offset=-300"

\* C6: mkdir of LOST.DIR is attempted if and only if the mount ended
\* successfully, createLost is true and LOST.DIR did not exist; it is
\* attempted at most once, for <target>/LOST.DIR, after the successful mount
\* and the failed access, and no mount attempt follows it.
LastMountOk == Len(MountCalls) >= 1 /\ MountCalls[Len(MountCalls)].rc = 0

C6_LostDirOnlyWhenWanted ==
  op = "Mount" =>
    /\ Cardinality(MkdirIdx) <= 1
    /\ \A i \in MkdirIdx :
         /\ i = Len(syscalls)
         /\ i >= 3
         /\ syscalls[i].path = margs.target \o "/LOST.DIR"
         /\ syscalls[i - 1].call = "access"
         /\ syscalls[i - 1].path = syscalls[i].path
         /\ syscalls[i - 1].rc # 0
         /\ syscalls[i - 2].call = "mount"
         /\ syscalls[i - 2].rc = 0
    /\ MkdirIdx # {} => (LastMountOk /\ margs.createLost /\ ~lostAtCall)
    /\ childPc \in {"exited", "reaped"} =>
         ((LastMountOk /\ margs.createLost /\ ~lostAtCall) => MkdirIdx # {})
    /\ (lostAtCall /\ MkdirIdx = {}) => lostExists

C6_Witness ==
  /\ op = "Mount" /\ childPc = "reaped" /\ margs.createLost /\ ~lostAtCall
  /\ Len(MountCalls) = 2 /\ LastMountOk /\ MkdirIdx # {} /\ ~lostExists

\* C9: every mount attempt carries MS_NODEV, MS_NOSUID, MS_DIRSYNC and
\* MS_NOATIME; the first attempt carries MS_NOEXEC iff executable is false,
\* MS_RDONLY iff read-only is true and MS_REMOUNT iff remount is true.
C9_MountFlags ==
  op = "Mount" =>
    /\ \A i \in 1..Len(MountCalls) :
         {"MS_NODEV", "MS_NOSUID", "MS_DIRSYNC", "MS_NOATIME"}
           \subseteq MountCalls[i].flags
    /\ Len(MountCalls) >= 1 =>
         /\ ("MS_NOEXEC" \in MountCalls[1].flags) <=> ~margs.executable
         /\ ("MS_RDONLY" \in MountCalls[1].flags) <=> margs.ro
         /\ ("MS_REMOUNT" \in MountCalls[1].flags) <=> margs.remount
         /\ MountCalls[1].flags \subseteq
              {"MS_NODEV", "MS_NOSUID", "MS_DIRSYNC", "MS_NOATIME", "MS_NOEXEC",
               "MS_RDONLY", "MS_REMOUNT"}

C9_Witness ==
  /\ op = "Mount" /\ Len(MountCalls) = 2
  /\ margs.executable /\ ~margs.ro /\ margs.remount
  /\ MountCalls[1].flags =
       {"MS_NODEV", "MS_NOSUID", "MS_DIRSYNC", "MS_NOATIME", "MS_REMOUNT"}
  /\ "MS_NOATIME" \in MountCalls[2].flags

\* --------------------------------------------------------------- Format
SectorText == (1 :> "1") @@ (2048 :> "2048") @@ (4194304 :> "4194304")

\* C7: the command of Format is [mkfs tool, -O, android, -A, source] when
\* sectorCount is 0 and [mkfs tool, -O, android, -A, -s, <sectorCount in
\* decimal>, source] otherwise.
C7_FormatCommand ==
  op = "Format" =>
    cmd = IF numSectors = 0
          THEN <<"/system/bin/newfs_msdos", "-O", "android", "-A", source>>
          ELSE <<"/system/bin/newfs_msdos", "-O", "android", "-A", "-s",
                 SectorText[numSectors], source>>

C7_Witness ==
  /\ op = "Format" /\ numSectors = 2048 /\ Len(cmd) = 7
  /\ cmd[5] = "-s" /\ cmd[6] = "2048" /\ cmd[7] = source

\* ----------------------------------------------------------- IsSupported
\* a step that is one call of IsSupported
IsSupportedStep == pc = "idle" /\ pc' = "idle" /\ op' = "IsSupported"
AllThree(p) == p.mkfs = "exec" /\ p.fsck = "exec" /\ p.vfat

\* C8 (as stated): IsSupported returns true iff both binaries are executable
\* and the host supports vfat, and changes no state.
C8_IsSupportedAsStated ==
  [][IsSupportedStep =>
       /\ supported' = AllThree(probe')
       /\ UNCHANGED <<errno, running, lostExists>>]_vars

\* C8 (amended): IsSupported returns true iff both binaries are executable
\* and the host supports vfat, and changes no state other than errno, which
\* a failed access() of a binary leaves at its error while false is returned.
C8_IsSupported ==
  [][IsSupportedStep =>
       /\ supported' = AllThree(probe')
       /\ UNCHANGED <<running, lostExists>>
       /\ errno' # errno =>
            /\ ~supported'
            /\ probe'.mkfs # "exec" \/ probe'.fsck # "exec"
            /\ errno' \in {ENOENT, EACCES}
       /\ (probe'.mkfs = "exec" /\ probe'.fsck = "exec") => errno' = errno]_vars

C8_Witness ==
  /\ op = "IsSupported" /\ pc = "idle" /\ ~supported
  /\ probe = [mkfs |-> "exec", fsck |-> "missing", vfat |-> TRUE]
  /\ errno = ENOENT

\* ------------------------------------------------------------------ errno
\* C10 (as stated): a Check or Format that returns failure has assigned
\* errno, to EIO, ENODATA or ETIMEDOUT, before it returns.
C10_FailureSetsErrno ==
  (pc = "idle" /\ op \in {"Check", "Format"} /\ result # 0) =>
     (errnoSet /\ errno \in {EIO, ENODATA, ETIMEDOUT})

\* C11: Format runs the format tool exactly once per call, without retry;
\* it returns success iff the exit status is 0, and every non-zero exit
\* status and a launch failure give failure with EIO.
C11_FormatOnceAndMapped ==
  op = "Format" =>
    /\ launches = 1
    /\ Len(outcomes) <= 1
    /\ (pc = "idle") <=> (Len(outcomes) = 1)
    /\ pc = "idle" =>
         /\ (result = 0) <=> (lastKind = "exit" /\ outcomes[1] = 0)
         /\ (lastKind = "forkfail" \/ outcomes[1] # 0) =>
              (result = -1 /\ errno = EIO /\ errnoSet)

C11_Witness ==
  /\ op = "Format" /\ pc = "idle" /\ lastKind = "exit" /\ outcomes = <<4>>
  /\ launches = 1 /\ result = -1 /\ errno = EIO

\* C12: a launch failure of the check tool on any attempt, the first or a
\* recheck, makes Check return failure with EIO at once, without another
\* attempt, whatever the pass counter.
C12_ForkFailureEndsCheck ==
  op = "Check" =>
    \A i \in 1..Len(outcomes) :
       outcomes[i] < 0 =>
         /\ i = Len(outcomes)
         /\ lastKind = "forkfail"
         /\ launches = i
         /\ pass = i
         /\ pc = "idle"
         /\ result = -1
         /\ errno = EIO
         /\ errnoSet

C12_Witness ==
  /\ CheckReturned /\ outcomes = <<4, 4, 4, -1>> /\ lastKind = "forkfail"
  /\ pass = 4 /\ launches = 4 /\ result = -1 /\ errno = EIO

\* C13: in Check the only outcome followed by another attempt is exit status
\* 4; in Mount a second mount attempt is made only after a first one that
\* failed with EROFS, so there are at most two; a child that timed out is
\* left behind and the call returns.
C13_OnlyDesignatedRetries ==
  /\ op = "Check" =>
       /\ \A i \in 1..(Len(outcomes) - 1) : outcomes[i] = 4
       /\ pc \in {"check_loop", "check_wait"} => AllDirty
  /\ op = "Mount" =>
       /\ Len(MountCalls) <= 2
       /\ Len(MountCalls) = 2 =>
            (MountCalls[1].rc # 0 /\ MountCalls[1].errno = EROFS)
       /\ childPc = "killed" =>
            (pc = "idle" /\ result = ETIMEDOUT /\ running = 0)

C13_Witness ==
  /\ op = "Mount" /\ pc = "idle" /\ childPc = "reaped"
  /\ Len(MountCalls) = 1 /\ MountCalls[1].rc # 0 /\ MountCalls[1].errno = EIO
  /\ result = -1

\* C14: the attempts of one Check run one after the other: at most one run
\* of the check tool is outstanding, an attempt is launched only after all
\* earlier ones returned 4, and every attempt is handed the command
\* [check tool, -p, -f, -y, source] with the untrusted context and the fixed
\* timeout.
C14_SequentialIdenticalAttempts ==
  op = "Check" =>
    /\ running \in {0, 1}
    /\ (running = 1) <=> (pc = "check_wait")
    /\ launches = Len(outcomes) + running
    /\ \A i \in 1..(launches - 1) : outcomes[i] = 4
    /\ launches >= 1 =>
         /\ cmd = <<"/system/bin/fsck_msdos", "-p", "-f", "-y", source>>
         /\ source \in Sources
         /\ execOpts = [timeout |-> "kUntrustedFsckSleepTime",
                        context |-> "sFsckUntrustedContext"]

C14_Witness ==
  /\ op = "Check" /\ pc = "check_wait" /\ running = 1 /\ launches = 3
  /\ outcomes = <<4, 4>>
  /\ cmd = <<"/system/bin/fsck_msdos", "-p", "-f", "-y", source>>

\* C15: what DoMount returns, and Mount reports, is the result of the last
\* mount attempt whatever the LOST.DIR step did: a failed mkdir leaves a
\* successful mount successful, and nothing unmounts the volume.
MkdirFailed == \E i \in MkdirIdx : syscalls[i].rc # 0

C15_LostDirFailureSwallowed ==
  (op = "Mount" /\ childPc \in {"exited", "reaped"}) =>
    /\ Len(MountCalls) >= 1
    /\ crc = MountCalls[Len(MountCalls)].rc
    /\ childPc = "reaped" =>
         ((result = 0) <=> (MountCalls[Len(MountCalls)].rc = 0))
    /\ \A i \in 1..Len(syscalls) : syscalls[i].call \in {"mount", "access", "mkdir"}

C15_Witness ==
  /\ op = "Mount" /\ pc = "idle" /\ childPc = "reaped"
  /\ Len(MountCalls) = 2 /\ "MS_RDONLY" \in flags /\ LastMountOk
  /\ MkdirFailed /\ result = 0

\* C16 (as stated): Check reports ETIMEDOUT if and only if the check tool
\* exceeded its time budget on that attempt; a tool that ran to completion
\* with an exit status outside {0, 1, 2, 4, 8} is reported with EIO, also
\* when the status equals the value of the timeout sentinel.
ReportsTimeout == result = -1 /\ errnoSet /\ errno = ETIMEDOUT

C16_TimeoutOnlyOnTimeout ==
  CheckReturned =>
    /\ ReportsTimeout <=> (lastKind = "timeout")
    /\ (lastKind = "exit" /\ LastOutcome \notin {0, 1, 2, 4, 8}) =>
         (result = -1 /\ errnoSet /\ errno = EIO)

\* C17: every mount attempt and the LOST.DIR step are made by the forked
\* child while the caller waits in ForkTimeout; the caller returns what the
\* forked execution gave, and while the child has not exited the timeout
\* can release the caller, wherever the child is blocked.
ChildSyscallStep == syscalls' # syscalls /\ syscalls' # <<>>

C17_MountRunsInChild ==
  /\ [][ChildSyscallStep =>
          /\ op = "Mount"
          /\ pc = "mount_wait" /\ pc' = "mount_wait"
          /\ running = 1
          /\ childPc \in {"mount", "retry", "lost"}]_vars
  /\ [](pc = "mount_wait" =>
          /\ running = 1
          /\ childPc \in {"mount", "retry", "lost"} => ENABLED MountTimeout
          /\ childPc = "exited" => ENABLED MountDone)
  /\ []((op = "Mount" /\ childPc = "reaped") =>
          (pc = "idle" /\ ((result = 0) <=> (crc = 0))))
  /\ []((op = "Mount" /\ childPc = "killed") =>
          (pc = "idle" /\ result = ETIMEDOUT))

C17_Witness ==
  /\ op = "Mount" /\ pc = "idle" /\ childPc = "killed" /\ running = 0
  /\ Len(MountCalls) = 1 /\ MountCalls[1].rc # 0 /\ MountCalls[1].errno = EROFS
  /\ result = ETIMEDOUT

\* C18: provided every launch of the check tool returns, every call of Check
\* returns, whatever the outcomes of its attempts.
C18_CheckReturns == (op = "Check" /\ pc # "idle") ~> (op = "Check" /\ pc = "idle")

C18_Witness ==
  /\ CheckReturned /\ outcomes = <<4, 4, 4, 110>> /\ lastKind = "timeout"
  /\ launches = 4 /\ result = -1

\* C19: the recheck budget starts afresh on every call: the pass counter,
\* the number of attempts, whether Check has returned and its result are
\* determined by the outcomes of the call's own attempts, whatever was
\* called before.
DirtyCount == Cardinality({i \in 1..Len(outcomes) : outcomes[i] = 4})

C19_NoStateAcrossCalls ==
  op = "Check" =>
    /\ pass = 1 + DirtyCount
    /\ launches = Len(outcomes) + (IF pc = "check_wait" THEN 1 ELSE 0)
    /\ (pc = "idle") <=>
         (Len(outcomes) >= 1 /\ (LastOutcome # 4 \/ Len(outcomes) = 4))
    /\ pc = "idle" => result = (IF LastOutcome = 0 THEN 0 ELSE -1)

C19_Witness ==
  /\ CheckReturned /\ exhaustedBefore
  /\ outcomes = <<4, 4, 4, 4>> /\ launches = 4 /\ pass = 5 /\ result = -1

\* C20: for every offset of -50400..+50400 seconds currentUtcOffsetMinutes
\* returns the offset in whole minutes truncated toward zero (-19800 gives
\* -330, -90 gives -1, -59 gives 0, 0 gives 0), and the result fits the
\* 16-bit return type.
OffsetReturned == op = "currentUtcOffsetMinutes" /\ childPc = "offset_done"

C20_OffsetTruncatesTowardZero ==
  OffsetReturned =>
    LET rest == gmtoff - 60 * offsetArg
    IN  /\ offsetArg \in -32768..32767
        /\ gmtoff >= 0 => (0 <= rest /\ rest < 60)
        /\ gmtoff < 0 => (-60 < rest /\ rest <= 0)
        /\ gmtoff = -19800 => offsetArg = -330
        /\ gmtoff = -90 => offsetArg = -1
        /\ gmtoff = -59 => offsetArg = 0
        /\ gmtoff = 0 => offsetArg = 0

C20_Witness == OffsetReturned /\ gmtoff = -59 /\ offsetArg = 0

====
